---- MODULE Spec2Model ----
(***************************************************************************)
(* Caching proxy of the flood-monitoring backend:                          *)
(*   backend/app/services/ea_service.py  (cache, get_with_cache,           *)
(*                                        get_stations,                    *)
(*                                        get_station_readings)            *)
(*   backend/app/api/routes.py           (stations, station, readings)    *)
(*   backend/config.py                   (API_BASE_URL, CACHE_TIMEOUT)     *)
(*                                                                         *)
(* Request handlers run concurrently (one per process of Procs) over the   *)
(* module-level dict `cache`.  Every handler is cut at the points where    *)
(* another handler can run: the cache lookup, the upstream call, the       *)
(* reading of the clock for the new entry, and the store of the entry.     *)
(***************************************************************************)
EXTENDS Integers, Sequences, FiniteSets, TLC

\* ---------------------------------------------------------------- bounds
NumProcs == 2      \* request handlers of the host server
MaxReqs  == 2      \* calls started in one behaviour
MaxClock == 300    \* last clock value (seconds)
ShortTtl == 150     \* the explicit timeout a direct caller passes

\* ------------------------------------------------------ program constants
CACHE_TIMEOUT == 300
API_BASE_URL  == "https://environment.data.gov.uk/flood-monitoring"
DaySeconds    == 86400   \* timedelta(hours=24)

Procs == 1..NumProcs

\* Python's None and an optional value: a sequence of length 0 or 1.
None    == <<>>
Some(v) == <<v>>
IsNone(o) == o = <<>>
The(o)  == o[1]

\* ----------------------------------------------------------- Python dicts
\* A dict is the sequence of its <<key, value>> pairs in insertion order.
EmptyDict == <<>>

DictHas(d, k) == \E i \in 1..Len(d) : d[i][1] = k

\* d.get(k): None when the key is absent
DictGet(d, k) ==
    IF DictHas(d, k)
    THEN Some(d[CHOOSE i \in 1..Len(d) : d[i][1] = k][2])
    ELSE None

\* d[k] = v: an existing key keeps its position, a new key goes last
DictSet(d, k, v) ==
    IF DictHas(d, k)
    THEN [i \in 1..Len(d) |-> IF d[i][1] = k THEN <<k, v>> ELSE d[i]]
    ELSE Append(d, <<k, v>>)

\* truth value of the result of d.get(k) with string values
Truthy(o) == ~IsNone(o) /\ The(o) # ""

\* repr() of a str
StrRepr(s) == "'" \o s \o "'"

RECURSIVE DictItemsStr(_)
DictItemsStr(d) ==
    IF Len(d) = 0 THEN ""
    ELSE StrRepr(d[1][1]) \o ": " \o StrRepr(d[1][2])
         \o (IF Len(d) = 1 THEN "" ELSE ", " \o DictItemsStr(Tail(d)))

\* str(params) for params a dict or None
PyStr(params) ==
    IF IsNone(params) THEN "None" ELSE "{" \o DictItemsStr(The(params)) \o "}"

\* date.isoformat(): the date part alone
IsoFormat_date(t) == "D" \o ToString(t \div DaySeconds)

\* datetime.isoformat() of a whole-second time: date part and time part
IsoFormat(t) ==
    "D" \o ToString(t \div DaySeconds) \o "T" \o ToString(t % DaySeconds)

\* ------------------------------------------------------------ ea_service
\* line 14
CacheKey(url, params) == url \o "?" \o PyStr(params)

\* lines 10-11
EffectiveTimeout(timeout) ==
    IF IsNone(timeout) THEN CACHE_TIMEOUT ELSE The(timeout)

\* line 35
StationsUrl == API_BASE_URL \o "/id/stations"
\* line 55
ReadingsUrl(station_id) ==
    API_BASE_URL \o "/id/stations/" \o station_id \o "/readings"

\* the comparison of line 19 turned around
Fresh_inverted(c, key, t, timeout) ==
    key \in DOMAIN c /\ t - c[key].time > timeout

\* the boundary of line 19 counted as fresh
Fresh_le(c, key, t, timeout) ==
    key \in DOMAIN c /\ t - c[key].time <= timeout

\* lines 17-19: the entry exists and is still fresh
Fresh(c, key, t, timeout) ==
    key \in DOMAIN c /\ t - c[key].time < timeout

\* cache.setdefault in place of the assignment of line 28
CacheStore_keep(c, key, stamp, data) ==
    [k \in DOMAIN c \cup {key} |->
        IF k \in DOMAIN c THEN c[k] ELSE [time |-> stamp, data |-> data]]

\* line 28
CacheStore(c, key, stamp, data) ==
    [k \in DOMAIN c \cup {key} |->
        IF k = key THEN [time |-> stamp, data |-> data] ELSE c[k]]

\* line 46
NeedsSince(d) ==
    /\ ~Truthy(DictGet(d, "today"))
    /\ ~Truthy(DictGet(d, "since"))
    /\ ~Truthy(DictGet(d, "date"))

\* the 24 hours of line 49 not subtracted
ShapeReadings_now(params, t) ==
    LET d0 == IF IsNone(params) THEN EmptyDict ELSE The(params)
        d1 == IF NeedsSince(d0)
              THEN DictSet(d0, "since", IsoFormat(t))
              ELSE d0
    IN  DictSet(d1, "_sorted", "")

\* lines 42-53: the mapping get_station_readings hands to get_with_cache
ShapeReadings(params, t) ==
    LET d0 == IF IsNone(params) THEN EmptyDict ELSE The(params)
        d1 == IF NeedsSince(d0)
              THEN DictSet(d0, "since", IsoFormat(t - DaySeconds))
              ELSE d0
    IN  DictSet(d1, "_sorted", "")


\* ------------------------------------------------------------- upstream
\* The JSON body of a successful upstream answer: `serial` identifies the
\* answer (the number of the upstream call that produced it), `items` is the
\* optional "items" member, a list of station objects.
ItemsChoices == {None, Some(<<>>), Some(<<"stA", "stB">>)}
\* Only the station route looks into the body (routes.py lines 18-19); the
\* other calls are answered with a list of items.
Answers(fn) ==
    IF fn = "station" THEN ItemsChoices ELSE {Some(<<"stA", "stB">>)}
\* raise_for_status() (line 24) and response.json() (line 25)
Failures == {"HTTPError", "JSONDecodeError"}
NoData == [serial |-> 0, items |-> None]

\* ---------------------------------------------------------------- inputs
StationIds  == {"S1"}
\* request.args.to_dict() of GET /api/stations
StationArgs == { EmptyDict,
                 << <<"a", "1">>, <<"b", "2">> >>,
                 << <<"b", "2">>, <<"a", "1">> >> }
\* request.args.to_dict() of GET /api/stations/<id>/readings
ReadingArgs == { EmptyDict,
                 << <<"today", "">> >>,
                 << <<"date", "2024-01-01">> >>,
                 << <<"since", "2024-01-01T00:00:00">> >>,
                 << <<"_limit", "5">> >> }
\* the clock is observed every half timeout
TickSteps == {CACHE_TIMEOUT \div 2}

\* ----------------------------------------------------------------- state
VARIABLES
    cache,    \* ea_service.cache: cache_key -> [time, data]
    now,      \* the clock read by time.time() and datetime.now()
    workers,  \* how many of the handlers the host server runs
    pc,       \* per handler: "idle", "check", "fetch", "stamp", "store", "ret"
    frame,    \* per handler: the locals of the running call
    log,      \* the upstream calls issued so far, in order
    hist,     \* the completed calls, in order of completion
    started   \* number of calls started

vars == <<cache, now, workers, pc, frame, log, hist, started>>

\* fn: the entry point; entry: the mapping the caller passed in; held: the
\* caller's own mapping object as it is now; began: the datetime.now() that
\* get_station_readings read at line 49 (0 in the calls that read none);
\* the rest are the locals of get_with_cache, hit and calls counting what
\* the call did.
NoFrame ==
    [fn |-> "", entry |-> None, held |-> None, url |-> "", params |-> None,
     timeout |-> 0, cache_key |-> "", data |-> NoData, stamp |-> 0,
     checkTime |-> 0, hit |-> FALSE, calls |-> 0, began |-> 0]

InitWith(w) ==
    /\ cache = << >>
    /\ now = 0
    /\ workers = w
    /\ pc = [p \in Procs |-> "idle"]
    /\ frame = [p \in Procs |-> NoFrame]
    /\ log = << >>
    /\ hist = << >>
    /\ started = 0

\* a threaded server: every handler may run at any time
Init == InitWith(NumProcs)

\* a server that handles one request at a time
InitSeq == InitWith(1)

\* ------------------------------------------------------- get_with_cache
\* lines 8-14: the call is entered from function fn; callerArgs is the
\* mapping the caller passed in (None when it passed none), heldArgs the
\* state of the caller's own mapping object once the callee has shaped it.
\* clock is the datetime.now() the entry point has read, if it read one.
\* The server gives the request to its first idle handler.
Enter(p, fn, callerArgs, heldArgs, url, params, timeout, clock) ==
    /\ pc[p] = "idle"
    /\ p <= workers
    /\ \A q \in 1..(p - 1) : pc[q] # "idle"
    /\ started < MaxReqs
    /\ started' = started + 1
    /\ pc' = [pc EXCEPT ![p] = "check"]
    /\ frame' = [frame EXCEPT ![p] =
            [NoFrame EXCEPT !.fn = fn, !.entry = callerArgs,
                            !.held = heldArgs, !.url = url,
                            !.params = params,
                            !.timeout = EffectiveTimeout(timeout),
                            !.cache_key = CacheKey(url, params),
                            !.began = clock]]
    /\ UNCHANGED <<cache, now, workers, log, hist>>

\* lines 32-36
get_stations(p, fn, params) ==
    Enter(p, fn, params, params, StationsUrl, params, None, 0)

\* lines 38-56: a mapping passed in is shaped in place, so the caller's
\* object changes with it; with no mapping a new dict is shaped.
get_station_readings(p, fn, station_id, params) ==
    LET shaped == ShapeReadings(params, now)
    IN  Enter(p, fn, params,
              IF IsNone(params) THEN None ELSE Some(shaped),
              ReadingsUrl(station_id), Some(shaped), None, now)

\* routes.py lines 6-12
stations(p) ==
    \E a \in StationArgs : get_stations(p, "stations", Some(a))

\* routes.py lines 14-17
station(p) ==
    \E id \in StationIds :
        get_stations(p, "station", Some(<< <<"stationReference", id>> >>))

\* routes.py lines 22-27
readings(p) ==
    \E id \in StationIds, a \in ReadingArgs :
        get_station_readings(p, "readings", id, Some(a))

\* get_stations() called with no mapping
service_stations(p) == get_stations(p, "get_stations", None)

\* get_station_readings(id) called with no mapping
service_readings(p) ==
    \E id \in StationIds :
        get_station_readings(p, "get_station_readings", id, None)

\* get_with_cache called with an explicit timeout
direct(p) ==
    \E params \in {None, Some(EmptyDict)} :
        Enter(p, "get_with_cache", params, params, StationsUrl, params,
              Some(ShortTtl), 0)

\* the lookup waits for a lock that a call holds from its miss to its store
Check_locked(p) ==
    /\ pc[p] = "check"
    /\ \A q \in Procs \ {p} : pc[q] \notin {"fetch", "stamp", "store"}
    /\ IF Fresh(cache, frame[p].cache_key, now, frame[p].timeout)
       THEN /\ frame' = [frame EXCEPT ![p].data = cache[frame[p].cache_key].data,
                                      ![p].hit = TRUE,
                                      ![p].checkTime = now]
            /\ pc' = [pc EXCEPT ![p] = "ret"]
       ELSE /\ frame' = [frame EXCEPT ![p].checkTime = now]
            /\ pc' = [pc EXCEPT ![p] = "fetch"]
    /\ UNCHANGED <<cache, now, workers, log, hist, started>>

\* the lookup deletes the entry it finds expired
Check_evict(p) ==
    /\ pc[p] = "check"
    /\ IF Fresh(cache, frame[p].cache_key, now, frame[p].timeout)
       THEN /\ frame' = [frame EXCEPT ![p].data = cache[frame[p].cache_key].data,
                                      ![p].hit = TRUE,
                                      ![p].checkTime = now]
            /\ pc' = [pc EXCEPT ![p] = "ret"]
            /\ UNCHANGED cache
       ELSE /\ frame' = [frame EXCEPT ![p].checkTime = now]
            /\ cache' = [k \in DOMAIN cache \ {frame[p].cache_key} |-> cache[k]]
            /\ pc' = [pc EXCEPT ![p] = "fetch"]
    /\ UNCHANGED <<now, workers, log, hist, started>>

\* a hit renews the timestamp of the entry (sliding expiry)
Check_touch(p) ==
    /\ pc[p] = "check"
    /\ IF Fresh(cache, frame[p].cache_key, now, frame[p].timeout)
       THEN /\ frame' = [frame EXCEPT ![p].data = cache[frame[p].cache_key].data,
                                      ![p].hit = TRUE,
                                      ![p].checkTime = now]
            /\ cache' = CacheStore(cache, frame[p].cache_key, now,
                                   cache[frame[p].cache_key].data)
            /\ pc' = [pc EXCEPT ![p] = "ret"]
       ELSE /\ frame' = [frame EXCEPT ![p].checkTime = now]
            /\ pc' = [pc EXCEPT ![p] = "fetch"]
            /\ UNCHANGED cache
    /\ UNCHANGED <<now, workers, log, hist, started>>

\* lines 17-20: the lookup; a fresh entry is returned at once
Check(p) ==
    /\ pc[p] = "check"
    /\ IF Fresh(cache, frame[p].cache_key, now, frame[p].timeout)
       THEN /\ frame' = [frame EXCEPT ![p].data = cache[frame[p].cache_key].data,
                                      ![p].hit = TRUE,
                                      ![p].checkTime = now]
            /\ pc' = [pc EXCEPT ![p] = "ret"]
       ELSE /\ frame' = [frame EXCEPT ![p].checkTime = now]
            /\ pc' = [pc EXCEPT ![p] = "fetch"]
    /\ UNCHANGED <<cache, now, workers, log, hist, started>>

\* requests.get(url, params=params), line 23, as upstream sees it
LogEntry(p, ok) ==
    [fn |-> frame[p].fn, entry |-> frame[p].entry,
     began |-> frame[p].began, url |-> frame[p].url, params |-> frame[p].params,
     cache_key |-> frame[p].cache_key, time |-> now, ok |-> ok]

\* a service function called directly has no HTTP response (status 0);
\* Flask answers an exception that leaves a route with 500
IsRoute(fn) == fn \in {"stations", "station", "readings"}

\* the last item answered instead of the first
StationResponse_last(data) ==
    IF ~IsNone(data.items) /\ Len(The(data.items)) > 0
    THEN [status |-> 200, kind |-> "item",
          body |-> The(data.items)[Len(The(data.items))]]
    ELSE [status |-> 404, kind |-> "error", body |-> "Station not found"]

\* routes.py lines 18-20
StationResponse(data) ==
    IF ~IsNone(data.items) /\ Len(The(data.items)) > 0
    THEN [status |-> 200, kind |-> "item", body |-> The(data.items)[1]]
    ELSE [status |-> 404, kind |-> "error", body |-> "Station not found"]

\* routes.py lines 12, 18-20, 28 and ea_service.py lines 20, 30, 36, 56
Response(fn, data) ==
    IF fn = "station" THEN StationResponse(data)
    ELSE [status |-> IF IsRoute(fn) THEN 200 ELSE 0,
          kind |-> "data", body |-> data]

\* lines 24-25 raise: nothing in ea_service.py or routes.py catches
Raised(fn, exc) ==
    [status |-> IF IsRoute(fn) THEN 500 ELSE 0, kind |-> "exc", body |-> exc]

\* what a completed call did: its frame and what its caller got
HistEntry(f, ok, response) ==
    [fn |-> f.fn, entry |-> f.entry, held |-> f.held, began |-> f.began,
     url |-> f.url, params |-> f.params, cache_key |-> f.cache_key, timeout |-> f.timeout,
     checkTime |-> f.checkTime, hit |-> f.hit, ok |-> ok,
     data |-> f.data, stamp |-> f.stamp, calls |-> f.calls,
     response |-> response]

\* lines 23-25, upstream answers with a JSON body
FetchOk(p) ==
    /\ pc[p] = "fetch"
    /\ \E it \in Answers(frame[p].fn) :
         frame' = [frame EXCEPT ![p].data = [serial |-> Len(log) + 1, items |-> it],
                                ![p].calls = @ + 1]
    /\ log' = Append(log, LogEntry(p, TRUE))
    /\ pc' = [pc EXCEPT ![p] = "stamp"]
    /\ UNCHANGED <<cache, now, workers, hist, started>>

\* a failed upstream call tried once more before the failure is raised
FetchFail_retry(p) ==
    /\ pc[p] = "fetch"
    /\ log' = Append(log, LogEntry(p, FALSE))
    /\ IF frame[p].calls = 0
       THEN /\ frame' = [frame EXCEPT ![p].calls = @ + 1]
            /\ UNCHANGED <<pc, hist>>
       ELSE /\ \E exc \in Failures :
                 hist' = Append(hist,
                            HistEntry([frame[p] EXCEPT !.calls = @ + 1], FALSE,
                                      Raised(frame[p].fn, exc)))
            /\ pc' = [pc EXCEPT ![p] = "idle"]
            /\ frame' = [frame EXCEPT ![p] = NoFrame]
    /\ UNCHANGED <<cache, now, workers, started>>

\* the failure stored as an entry before it is raised
FetchFail_cached(p) ==
    /\ pc[p] = "fetch"
    /\ \E exc \in Failures :
         hist' = Append(hist,
                    HistEntry([frame[p] EXCEPT !.calls = @ + 1], FALSE,
                              Raised(frame[p].fn, exc)))
    /\ log' = Append(log, LogEntry(p, FALSE))
    /\ cache' = CacheStore(cache, frame[p].cache_key, now, NoData)
    /\ pc' = [pc EXCEPT ![p] = "idle"]
    /\ frame' = [frame EXCEPT ![p] = NoFrame]
    /\ UNCHANGED <<now, workers, started>>

\* lines 23-25, the upstream call fails: the exception leaves
\* get_with_cache and its callers
FetchFail(p) ==
    /\ pc[p] = "fetch"
    /\ \E exc \in Failures :
         hist' = Append(hist,
                    HistEntry([frame[p] EXCEPT !.calls = @ + 1], FALSE,
                              Raised(frame[p].fn, exc)))
    /\ log' = Append(log, LogEntry(p, FALSE))
    /\ pc' = [pc EXCEPT ![p] = "idle"]
    /\ frame' = [frame EXCEPT ![p] = NoFrame]
    /\ UNCHANGED <<cache, now, workers, started>>

\* the time of the lookup reused for the new entry
Stamp_early(p) ==
    /\ pc[p] = "stamp"
    /\ frame' = [frame EXCEPT ![p].stamp = frame[p].checkTime]
    /\ pc' = [pc EXCEPT ![p] = "store"]
    /\ UNCHANGED <<cache, now, workers, log, hist, started>>

\* line 28, time.time() is evaluated
Stamp(p) ==
    /\ pc[p] = "stamp"
    /\ frame' = [frame EXCEPT ![p].stamp = now]
    /\ pc' = [pc EXCEPT ![p] = "store"]
    /\ UNCHANGED <<cache, now, workers, log, hist, started>>

\* line 28, the entry is stored
Store(p) ==
    /\ pc[p] = "store"
    /\ cache' = CacheStore(cache, frame[p].cache_key, frame[p].stamp,
                           frame[p].data)
    /\ pc' = [pc EXCEPT ![p] = "ret"]
    /\ UNCHANGED <<now, workers, frame, log, hist, started>>

\* lines 20 and 30: the value returns to the caller
Return(p) ==
    /\ pc[p] = "ret"
    /\ hist' = Append(hist, HistEntry(frame[p], TRUE,
                                      Response(frame[p].fn, frame[p].data)))
    /\ pc' = [pc EXCEPT ![p] = "idle"]
    /\ frame' = [frame EXCEPT ![p] = NoFrame]
    /\ UNCHANGED <<cache, now, workers, log, started>>

\* time passes
Tick ==
    /\ \E d \in TickSteps :
         /\ now + d <= MaxClock
         /\ now' = now + d
    /\ UNCHANGED <<cache, workers, pc, frame, log, hist, started>>

\* lines 16-30 of a call in progress
Lifecycle(p) ==
    \/ Check(p)
    \/ FetchOk(p)
    \/ FetchFail(p)
    \/ Stamp(p)
    \/ Store(p)
    \/ Return(p)

\* get_with_cache under concurrent callers
Next ==
    \/ \E p \in Procs : direct(p) \/ Lifecycle(p)
    \/ Tick

\* the stations resource: GET /api/stations, get_stations(), get_with_cache
NextCache ==
    \/ \E p \in Procs : \/ stations(p)
                        \/ service_stations(p)
                        \/ direct(p)
                        \/ Lifecycle(p)
    \/ Tick

\* GET /api/stations/<id>, GET /api/stations/<id>/readings,
\* get_station_readings(id)
NextRoutes ==
    \/ \E p \in Procs : \/ station(p)
                        \/ readings(p)
                        \/ service_readings(p)
                        \/ Lifecycle(p)
    \/ Tick

Spec == Init /\ [][Next]_vars

SpecSeq == InitSeq /\ [][NextCache]_vars

SpecRoutes == InitSeq /\ [][NextRoutes]_vars

TypeOK ==
    /\ now \in 0..MaxClock
    /\ started \in 0..MaxReqs
    /\ \A p \in Procs : pc[p] \in {"idle", "check", "fetch", "stamp", "store", "ret"}

\* ------------------------------------------------- completed calls, read
Calls == 1..Len(hist)

\* call i fetched a value and stored it under its key
Wrote(i) == hist[i].ok /\ ~hist[i].hit

\* call i stored the entry that call j found under their common key
WroteEntryFor(i, j) ==
    /\ i < j
    /\ hist[i].cache_key = hist[j].cache_key
    /\ Wrote(i)
    /\ \A k \in Calls : (i < k /\ k < j /\ hist[k].cache_key = hist[j].cache_key)
                            => ~Wrote(k)

\* no call on the key of j completed between i and j
NextOnKey(i, j) ==
    /\ i < j
    /\ hist[i].cache_key = hist[j].cache_key
    /\ \A k \in Calls : (i < k /\ k < j) => hist[k].cache_key # hist[j].cache_key

\* the entry the completed calls have left under key k, if any
LastWrite(k) ==
    LET W == {i \in Calls : hist[i].cache_key = k /\ Wrote(i)}
    IN  IF W = {} THEN None
        ELSE LET m == CHOOSE i \in W : \A o \in W : o <= i
             IN  Some([time |-> hist[m].stamp, data |-> hist[m].data])

Quiescent == \A p \in Procs : pc[p] = "idle"

\* C1 - Cache hit idempotence.  With one call at a time: once a call has
\* fetched a value and written the entry, a later call on the same key that
\* looks the entry up while now - insertedAt < ttl issues no upstream call
\* and returns what the writing call returned, so the two calls issue one
\* upstream call in total.
CacheHitIdempotence ==
    \A i, j \in Calls :
        (WroteEntryFor(i, j)
           /\ hist[j].checkTime - hist[i].stamp < hist[j].timeout)
        => /\ hist[j].hit
           /\ hist[j].ok
           /\ hist[j].calls = 0
           /\ hist[i].calls + hist[j].calls = 1
           /\ hist[j].data = hist[i].data
           /\ (hist[j].fn = hist[i].fn => hist[j].response = hist[i].response)

CacheHitWitness ==
    \E i, j \in Calls :
        /\ WroteEntryFor(i, j)
        /\ hist[j].checkTime - hist[i].stamp < hist[j].timeout
        /\ hist[j].checkTime > hist[i].stamp
        /\ hist[j].hit
        /\ Len(log) = 1

\* C2 - Cache expiry.  With one call at a time: a call that finds the entry
\* of its key with now - insertedAt >= ttl (the boundary included) issues a
\* new upstream call; when that call succeeds the entry is overwritten with
\* the fresh value, stamped with a clock value read during the call, and the
\* fresh value is returned, not the old one.
CacheExpiry ==
    \A i, j \in Calls :
        (WroteEntryFor(i, j)
           /\ hist[j].checkTime - hist[i].stamp >= hist[j].timeout)
        => /\ ~hist[j].hit
           /\ hist[j].calls = 1
           /\ hist[j].ok =>
                /\ hist[j].data.serial > hist[i].data.serial
                /\ log[hist[j].data.serial].cache_key = hist[j].cache_key
                /\ hist[j].stamp >= hist[j].checkTime
                /\ hist[j].stamp <= now
                /\ hist[j].response = Response(hist[j].fn, hist[j].data)
                /\ (Quiescent /\ j = Len(hist))
                     => cache[hist[j].cache_key] =
                            [time |-> hist[j].stamp, data |-> hist[j].data]

\* the boundary: the entry is looked up exactly ttl after it was written
CacheExpiryWitness ==
    \E i, j \in Calls :
        /\ WroteEntryFor(i, j)
        /\ hist[j].checkTime - hist[i].stamp = hist[j].timeout
        /\ hist[j].ok
        /\ ~hist[j].hit
        /\ Quiescent
        /\ cache[hist[j].cache_key].data = hist[j].data
        /\ hist[j].data # hist[i].data

\* C3 - No negative caching.  With one call at a time: a call whose upstream
\* call fails signals the error and contributes nothing to the cache (the
\* cache holds exactly what the successful fetches have written: no entry
\* for a key never fetched successfully, the old value and timestamp for an
\* expired one); the next call on that key with the same or a shorter ttl
\* calls upstream again, and when it succeeds its value is the cached one.
NoNegativeCaching ==
    /\ \A j \in Calls :
          ~hist[j].ok => /\ hist[j].response.kind = "exc"
                         /\ hist[j].response.body \in Failures
                         /\ ~hist[j].hit
                         /\ hist[j].calls = 1
    /\ Quiescent =>
          /\ \A k \in DOMAIN cache : LastWrite(k) = Some(cache[k])
          /\ \A j \in Calls :
                hist[j].cache_key \notin DOMAIN cache
                    => LastWrite(hist[j].cache_key) = None
    /\ \A i, j \in Calls :
          (NextOnKey(i, j) /\ ~hist[i].ok
              /\ hist[j].timeout <= hist[i].timeout)
          => /\ hist[j].calls = 1
             /\ ~hist[j].hit
             /\ (hist[j].ok /\ Quiescent /\ j = Len(hist))
                  => cache[hist[j].cache_key].data = hist[j].data

\* a call fails on a key, the next call on that key fetches again and its
\* value is the cached one
NoNegativeCachingWitness ==
    \E i, j \in Calls :
        /\ NextOnKey(i, j)
        /\ ~hist[i].ok
        /\ hist[j].ok
        /\ Quiescent
        /\ cache[hist[j].cache_key].data = hist[j].data

\* a failed call has left an expired entry as it was
FailureKeepsEntry ==
    \E i, j \in Calls :
        /\ WroteEntryFor(i, j)
        /\ ~hist[j].ok
        /\ Quiescent
        /\ cache[hist[j].cache_key] = [time |-> hist[i].stamp, data |-> hist[i].data]

\* ------------------------------------------------------- key derivation
\* the key/value pairs of a mapping, without their order
DictItems(d) == {d[x] : x \in 1..Len(d)}

\* the same mapping, whatever the insertion order
SameMapping(a, b) ==
    ~IsNone(a) /\ ~IsNone(b) /\ DictItems(The(a)) = DictItems(The(b))

\* no parameters: no mapping, or a mapping without keys
NoParams(a) == IsNone(a) \/ Len(The(a)) = 0

\* call j is the first call after i on the url of both that wrote or whose
\* parameters are related to those of i by Same
FollowsOn(i, j, Same(_, _)) ==
    /\ i < j
    /\ hist[i].url = hist[j].url
    /\ Same(hist[i].params, hist[j].params)
    /\ Wrote(i)
    /\ \A k \in Calls : (i < k /\ k < j) => hist[k].url # hist[i].url

\* C4 - Key equivalence under parameter reordering.  With one call at a
\* time: two calls on one url whose parameter mappings hold the same
\* key/value pairs derive the same cache key, so the second, made within ttl
\* of the entry the first wrote, is a hit and issues no upstream call.
KeyEquivalenceUnderReordering ==
    \A i, j \in Calls :
        FollowsOn(i, j, SameMapping) =>
            /\ hist[j].cache_key = hist[i].cache_key
            /\ hist[j].checkTime - hist[i].stamp < hist[j].timeout
                 => (hist[j].hit /\ hist[j].calls = 0)

\* C5 - Empty and absent parameters are the same request.  With one call at
\* a time: two calls on one url, each with no mapping or with an empty one,
\* derive the same cache key, so the second, made within ttl of the entry
\* the first wrote, is a hit and issues no upstream call.
EmptyAndAbsentSameRequest ==
    \A i, j \in Calls :
        (FollowsOn(i, j, LAMBDA a, b : NoParams(a) /\ NoParams(b))) =>
            /\ hist[j].cache_key = hist[i].cache_key
            /\ hist[j].checkTime - hist[i].stamp < hist[j].timeout
                 => (hist[j].hit /\ hist[j].calls = 0)

\* ---------------------------------------------------- readings, station
IsReadings(fn) == fn \in {"readings", "get_station_readings"}

\* the caller passed no mapping, or one without today, since and date
NoTimeKey(entry) ==
    \/ IsNone(entry)
    \/ /\ ~DictHas(The(entry), "today")
       /\ ~DictHas(The(entry), "since")
       /\ ~DictHas(The(entry), "date")

\* params carries since = t - 24h and an empty _sorted
Injected(params, t) ==
    /\ ~IsNone(params)
    /\ DictGet(The(params), "since") = Some(IsoFormat(t - DaySeconds))
    /\ DictGet(The(params), "_sorted") = Some("")

\* C6 - Default since-injection.  Whenever get_station_readings is called
\* with no mapping or with a mapping without today, since and date, the
\* parameters it hands to get_with_cache, those the cache key is derived
\* from and those of the upstream call, carry since = the time of the call
\* minus 24 hours and _sorted with an empty value.
DefaultSinceInjection ==
    /\ \A p \in Procs :
          (pc[p] # "idle" /\ IsReadings(frame[p].fn) /\ NoTimeKey(frame[p].entry))
          => /\ Injected(frame[p].params, frame[p].began)
             /\ frame[p].cache_key = CacheKey(frame[p].url, frame[p].params)
    /\ \A i \in Calls :
          (IsReadings(hist[i].fn) /\ NoTimeKey(hist[i].entry))
          => /\ Injected(hist[i].params, hist[i].began)
             /\ hist[i].cache_key = CacheKey(hist[i].url, hist[i].params)
    /\ \A n \in 1..Len(log) :
          (IsReadings(log[n].fn) /\ NoTimeKey(log[n].entry))
          => Injected(log[n].params, log[n].began)

\* an upstream call of a readings request made at a later time, by a caller
\* whose mapping had a key, but none of the three
DefaultSinceWitness ==
    \E n \in 1..Len(log) :
        /\ log[n].fn = "readings"
        /\ NoTimeKey(log[n].entry)
        /\ Len(The(log[n].entry)) > 0
        /\ log[n].began > 0
        /\ Injected(log[n].params, log[n].began)

\* C7 - Explicit time-parameter bypass.  Whenever the mapping the caller of
\* get_station_readings supplies contains one of the keys today, since,
\* date, whatever its value, no since is injected: the parameters handed on
\* carry since only if the caller supplied it, with the caller's value.
ExplicitTimeParameterBypass ==
    \A i \in Calls :
        (IsReadings(hist[i].fn) /\ ~NoTimeKey(hist[i].entry))
        => DictGet(The(hist[i].params), "since")
              = DictGet(The(hist[i].entry), "since")

\* C8 - Station lookup by id.  GET /api/stations/<id> queries the stations
\* resource with stationReference = id through the cache; when the call
\* succeeds, a non-empty items list gives 200 with the first item, and an
\* empty or absent list gives 404 with the error "Station not found".
StationLookup ==
    \A i \in Calls :
        hist[i].fn = "station" =>
            /\ hist[i].url = StationsUrl
            /\ \E id \in StationIds :
                  hist[i].params = Some(<< <<"stationReference", id>> >>)
            /\ hist[i].cache_key = CacheKey(StationsUrl, hist[i].params)
            /\ hist[i].hit <=> hist[i].calls = 0
            /\ hist[i].ok =>
                 /\ ~hist[i].hit => /\ log[hist[i].data.serial].url = StationsUrl
                                    /\ log[hist[i].data.serial].params = hist[i].params
                 /\ IF ~IsNone(hist[i].data.items)
                         /\ The(hist[i].data.items) # << >>
                    THEN hist[i].response =
                            [status |-> 200, kind |-> "item",
                             body |-> Head(The(hist[i].data.items))]
                    ELSE hist[i].response =
                            [status |-> 404, kind |-> "error",
                             body |-> "Station not found"]

\* one lookup answered with the first of two items, another with 404
StationLookupWitness ==
    \E i, j \in Calls :
        /\ hist[i].fn = "station" /\ hist[i].ok
        /\ ~IsNone(hist[i].data.items)
        /\ Len(The(hist[i].data.items)) = 2
        /\ hist[i].response.status = 200
        /\ hist[j].fn = "station" /\ hist[j].ok
        /\ hist[j].response.status = 404

\* ----------------------------------------------------------- concurrency
\* upstream answered call n successfully, for key k
AnsweredFor(n, k) ==
    /\ n \in 1..Len(log)
    /\ log[n].ok
    /\ log[n].cache_key = k

\* the calls on key k: completed, and in progress
CompletedOn(k) == {i \in Calls : hist[i].cache_key = k}
RunningOn(k)   == {p \in Procs : pc[p] # "idle" /\ frame[p].cache_key = k}
UpstreamOn(k)  == {n \in 1..Len(log) : log[n].cache_key = k}

\* every completed call returned a value upstream answered for its key, and
\* issued one upstream call, or none on a hit
ReturnsOwnKey ==
    \A i \in Calls :
        /\ hist[i].calls \in {0, 1}
        /\ hist[i].hit <=> hist[i].calls = 0
        /\ hist[i].ok => AnsweredFor(hist[i].data.serial, hist[i].cache_key)

\* every entry is whole: the value and the timestamp of one call on its key
EntriesWhole ==
    \A k \in DOMAIN cache :
        /\ AnsweredFor(cache[k].data.serial, k)
        /\ \/ \E i \in CompletedOn(k) :
                 /\ Wrote(i)
                 /\ cache[k] = [time |-> hist[i].stamp, data |-> hist[i].data]
           \/ \E p \in RunningOn(k) :
                 /\ pc[p] = "ret"
                 /\ cache[k] = [time |-> frame[p].stamp, data |-> frame[p].data]

\* N calls on a key issue at most N upstream calls, and at least one once
\* one of them has completed
UpstreamCallsBounded ==
    \A k \in {hist[i].cache_key : i \in Calls} :
        /\ Cardinality(UpstreamOn(k)) >= 1
        /\ Cardinality(UpstreamOn(k))
              <= Cardinality(CompletedOn(k)) + Cardinality(RunningOn(k))

\* a call in progress can always take its next step
NeverBlocked == \A p \in Procs : pc[p] # "idle" => ENABLED Lifecycle(p)

\* the only change of the cache: a call stores its value and its timestamp
\* under its key, whatever was there, and leaves the other keys alone
LastStoreWins ==
    /\ \A p \in Procs :
          (pc[p] = "store" /\ pc'[p] = "ret") =>
              /\ frame[p].cache_key \in DOMAIN cache'
              /\ cache'[frame[p].cache_key] =
                    [time |-> frame[p].stamp, data |-> frame[p].data]
              /\ \A k \in DOMAIN cache :
                    k # frame[p].cache_key =>
                        (k \in DOMAIN cache' /\ cache'[k] = cache[k])
    /\ cache' # cache => \E p \in Procs : pc[p] = "store" /\ pc'[p] = "ret"

\* C9 - Concurrent identical misses.  Under every interleaving of the
\* lookup, fetch and store steps of concurrent calls: a call in progress is
\* never blocked; a call that returns returns a value upstream answered for
\* its own key; N calls on a key issue between 1 and N upstream calls (a
\* miss is not shared); an entry is always the whole value and timestamp of
\* one call on its key, and each store replaces the entry, so that the entry
\* is that of the call that stored last.
ConcurrentIdenticalMisses ==
    /\ [](ReturnsOwnKey /\ EntriesWhole /\ UpstreamCallsBounded /\ NeverBlocked)
    /\ [][LastStoreWins]_vars

\* two calls on one key have both missed, fetched and stored: the second
\* looked the entry up before the first had stored it
ConcurrentMissesWitness ==
    \E i, j \in Calls :
        /\ i < j
        /\ hist[i].cache_key = hist[j].cache_key
        /\ Wrote(i) /\ Wrote(j)
        /\ hist[i].timeout = hist[j].timeout
        /\ hist[j].checkTime <= hist[i].stamp
        /\ hist[i].data # hist[j].data
        /\ Cardinality(UpstreamOn(hist[i].cache_key)) = 2
        /\ Quiescent

\* C10 - Cached data never regresses (as claimed).  No step replaces the
\* entry of a key by a value that upstream answered earlier than the value
\* the entry held.
CachedDataNeverRegresses ==
    [][\A k \in DOMAIN cache :
          cache'[k].data.serial >= cache[k].data.serial]_vars

\* C10, amended - The last store wins, whichever answer is older; every
\* entry holds a value upstream answered for its key, with a timestamp read
\* after that answer and not later than the present.
StoredAfterAnswered ==
    \A k \in DOMAIN cache :
        /\ AnsweredFor(cache[k].data.serial, k)
        /\ log[cache[k].data.serial].time <= cache[k].time
        /\ cache[k].time <= now

\* the entry holds the older of two answers, with the newer timestamp
StoredAfterAnsweredWitness ==
    \E i, j \in Calls :
        /\ hist[i].cache_key = hist[j].cache_key
        /\ Wrote(i) /\ Wrote(j)
        /\ hist[i].data.serial < hist[j].data.serial
        /\ hist[i].stamp > hist[j].stamp
        /\ log[hist[i].data.serial].time < hist[j].stamp
        /\ cache[hist[i].cache_key] = [time |-> hist[i].stamp, data |-> hist[i].data]

\* ------------------------------------------- readings requests over time
\* calls i and j are consecutive calls of get_station_readings on one
\* station, both without today, since and date, made at different times
DefaultReadingsApart(i, j) ==
    /\ i < j
    /\ IsReadings(hist[i].fn) /\ IsReadings(hist[j].fn)
    /\ hist[i].url = hist[j].url
    /\ NoTimeKey(hist[i].entry) /\ NoTimeKey(hist[j].entry)
    /\ hist[i].began < hist[j].began
    /\ \A k \in Calls : (i < k /\ k < j) => hist[k].url # hist[i].url

\* C11 - Default readings requests do not share cache entries across time.
\* Of two such calls the injected since values differ, so the cache keys
\* differ: the second call does not hit the entry of the first, even within
\* ttl of it, issues its own upstream call, and, when both succeed, each
\* has its own entry in the cache.
DefaultReadingsNotShared ==
    \A i, j \in Calls :
        DefaultReadingsApart(i, j) =>
            /\ DictGet(The(hist[i].params), "since")
                  # DictGet(The(hist[j].params), "since")
            /\ hist[i].cache_key # hist[j].cache_key
            /\ ~hist[j].hit
            /\ hist[j].calls = 1
            /\ (hist[i].ok /\ hist[j].ok) =>
                  /\ {hist[i].cache_key, hist[j].cache_key} \subseteq DOMAIN cache
                  /\ cache[hist[i].cache_key].data = hist[i].data
                  /\ cache[hist[j].cache_key].data = hist[j].data

\* two such calls of the same request, the second within ttl of the entry
\* of the first, have left two entries
DefaultReadingsWitness ==
    \E i, j \in Calls :
        /\ DefaultReadingsApart(i, j)
        /\ hist[i].entry = hist[j].entry
        /\ hist[i].ok /\ hist[j].ok
        /\ hist[j].checkTime - hist[i].stamp < hist[j].timeout
        /\ Cardinality(DOMAIN cache) = 2
        /\ Len(log) = 2

\* ------------------------------------------------ one call, one fetch
\* the upstream calls a call has issued when it stands at position at
CallsAt(at, hit) ==
    IF at \in {"check", "fetch"} THEN 0
    ELSE IF at \in {"stamp", "store"} THEN 1
    ELSE IF hit THEN 0 ELSE 1

\* the lookup finds a fresh entry exactly when it ends the call as a hit,
\* and issues no upstream call itself
LookupDecides ==
    \A p \in Procs :
        (pc[p] = "check" /\ pc'[p] # "check") =>
            /\ log' = log
            /\ frame'[p].calls = 0
            /\ frame'[p].hit <=>
                  /\ frame[p].cache_key \in DOMAIN cache
                  /\ now - cache[frame[p].cache_key].time < frame[p].timeout
            /\ pc'[p] = IF frame'[p].hit THEN "ret" ELSE "fetch"

\* C12 - At most one upstream call per invocation, no retries.  A call
\* that finds a fresh entry issues no upstream call, any other call issues
\* exactly one, whether it succeeds or fails; the upstream calls are those
\* and no more; a call ends by returning the whole value (the cached one or
\* the one it fetched) or by signalling the failure.
OneUpstreamCallPerInvocation ==
    /\ [](/\ \A p \in Procs :
               pc[p] # "idle" =>
                   /\ frame[p].calls = CallsAt(pc[p], frame[p].hit)
                   /\ frame[p].hit => pc[p] = "ret"
          /\ \A i \in Calls :
               /\ hist[i].calls = (IF hist[i].hit THEN 0 ELSE 1)
               /\ hist[i].hit => hist[i].ok
               /\ IF hist[i].ok
                  THEN /\ hist[i].response = Response(hist[i].fn, hist[i].data)
                       /\ hist[i].data.serial \in 1..Len(log)
                       /\ log[hist[i].data.serial].ok
                  ELSE /\ hist[i].response.kind = "exc"
                       /\ hist[i].response.body \in Failures
          /\ Len(log) = Cardinality({i \in Calls : hist[i].calls = 1})
                        + Cardinality({p \in Procs : pc[p] # "idle"
                                                      /\ frame[p].calls = 1}))
    /\ [][LookupDecides]_vars

\* a call has failed after one upstream call, another has fetched its value
\* with one upstream call
OneUpstreamCallWitness ==
    \E i, j \in Calls :
        /\ ~hist[i].ok /\ hist[i].calls = 1
        /\ hist[j].ok /\ ~hist[j].hit /\ hist[j].calls = 1
        /\ hist[i].cache_key = hist[j].cache_key
        /\ Len(log) = 2

\* ------------------------------------------------------------------ hits
\* handler p takes a step of a call that is a hit: the lookup that finds
\* the fresh entry, or the return of its value
HitStep(p) ==
    \/ pc[p] = "check" /\ pc'[p] = "ret"
    \/ pc[p] = "ret" /\ frame[p].hit /\ pc'[p] = "idle"

\* no call after i has stored an entry under the key of i
LastWriter(i) ==
    /\ Wrote(i)
    /\ \A k \in Calls :
          (k > i /\ hist[k].cache_key = hist[i].cache_key) => ~Wrote(k)

MissStore(p, k) ==
    /\ pc[p] = "store" /\ pc'[p] = "ret"
    /\ frame[p].cache_key = k
    /\ ~frame[p].hit
    /\ frame[p].calls = 1

\* every key stays, and an entry appears or changes only by the store of a
\* call that missed on that very key
EntryStep ==
    /\ DOMAIN cache \subseteq DOMAIN cache'
    /\ \A k \in DOMAIN cache' :
          (k \notin DOMAIN cache \/ cache'[k] # cache[k])
              => \E p \in Procs : MissStore(p, k)

\* C14 - Entries are never removed and writes are local to their key.
\* Through requests, successes, failures and clock advances a key that is
\* in the cache stays in it, also when its entry has expired; its entry is
\* only replaced by the store of a later miss on the same key, and a store
\* under one key leaves the entries of all other keys as they were.
EntriesNeverRemoved ==
    /\ [][EntryStep]_vars
    /\ [](\A i \in Calls : Wrote(i) => hist[i].cache_key \in DOMAIN cache)

\* an entry that has expired is still there, unchanged, after a later call
\* has stored an entry under another key
EntriesNeverRemovedWitness ==
    \E i, j \in Calls :
        /\ i < j
        /\ Wrote(i) /\ Wrote(j)
        /\ hist[i].cache_key # hist[j].cache_key
        /\ hist[j].stamp > hist[i].stamp
        /\ now - hist[i].stamp >= hist[i].timeout
        /\ cache[hist[i].cache_key] = [time |-> hist[i].stamp, data |-> hist[i].data]
        /\ cache[hist[j].cache_key] = [time |-> hist[j].stamp, data |-> hist[j].data]

\* ------------------------------------------------- the caller's mapping
\* C15 - Parameter shaping is pure.  get_station_readings leaves the
\* mapping its caller supplied as it was: after the call the caller's own
\* mapping holds what it held before, without an added or altered since or
\* _sorted.
ParameterShapingPure ==
    /\ \A p \in Procs :
          (pc[p] # "idle" /\ IsReadings(frame[p].fn))
              => frame[p].held = frame[p].entry
    /\ \A i \in Calls :
          IsReadings(hist[i].fn) => hist[i].held = hist[i].entry

\* ------------------------------------------------------- slow upstream
\* how far a call has come
Rank(at) ==
    CASE at = "check" -> 1
      [] at = "fetch" -> 2
      [] at = "stamp" -> 3
      [] at = "store" -> 4
      [] at = "ret"   -> 5
      [] at = "idle"  -> 6

\* the entry of the call of q is fresh now
FreshFor(q) ==
    /\ frame[q].cache_key \in DOMAIN cache
    /\ now - cache[frame[q].cache_key].time < frame[q].timeout

\* while p waits for upstream, q can take the step it stands at
FreeBeside(p, q) ==
    /\ pc[q] # "idle" => ENABLED Lifecycle(q)
    /\ (pc[q] = "check" /\ FreshFor(q)) => ENABLED (Check(q) /\ pc'[q] = "ret")
    /\ (pc[q] = "check" /\ ~FreshFor(q)) => ENABLED (Check(q) /\ pc'[q] = "fetch")
    /\ pc[q] = "fetch" => ENABLED FetchOk(q)
    /\ pc[q] = "ret" => ENABLED (Return(q) /\ pc'[q] = "idle")
    /\ (pc[q] = "idle" /\ started < MaxReqs /\ q <= workers
           /\ \A r \in 1..(q - 1) : pc[r] # "idle")
         => ENABLED direct(q)

\* a step of q moves the call of q forward and touches no other call
OwnStep ==
    \A q \in Procs :
        pc'[q] # pc[q] =>
            /\ pc[q] # "idle" => Rank(pc'[q]) > Rank(pc[q])
            /\ \A p \in Procs \ {q} : pc'[p] = pc[p] /\ frame'[p] = frame[p]

====
